---- MODULE Spec2Model ----
(***************************************************************************)
(* ClariFi_AI: the ReAct agent control loop (agent_system.py) over the     *)
(* tool registry of knowledge_base.py.                                     *)
(*                                                                         *)
(* Text is a sequence of tokens.  The tokens that the code looks at are    *)
(* kept apart: the action marker "Action:", the thought label, blanks and  *)
(* newlines, and the pieces of the  name[key="value", key=value]  syntax.  *)
(* Every other token stands for a run of ordinary characters.              *)
(***************************************************************************)
EXTENDS Integers, Sequences, FiniteSets, TLC

\* ------------------------------------------------------------------------
\* Bounds of the model
\* ------------------------------------------------------------------------
MaxStepsBound == 2
MaxRuns == 2

\* ------------------------------------------------------------------------
\* Text
\* ------------------------------------------------------------------------
MARK == "Action:"
SP == " "
NL == "\n"
QUOTE == "\""
Whitespace == {SP, NL}
ThoughtLabels == {"Thought:", "thought:", "THOUGHT:"}

\* a value as Python sees it: a str (text) or a non-str (an int here)
StrVal(t) == [isStr |-> TRUE, text |-> t, num |-> 0]
IntVal(n) == [isStr |-> FALSE, text |-> <<>>, num |-> n]

IntTokens == {"7", "42"}
int(tok) == IF tok = "7" THEN 7 ELSE 42
\* str(x) of a non-str x: its decimal digits as one token
str(v) == IF v.isStr THEN v.text ELSE << CHOOSE t \in IntTokens : int(t) = v.num >>

RECURSIVE lstrip(_)
lstrip(s) == IF s # <<>> /\ Head(s) \in Whitespace THEN lstrip(Tail(s)) ELSE s

RECURSIVE rstrip(_)
rstrip(s) ==
    IF s # <<>> /\ s[Len(s)] \in Whitespace THEN rstrip(SubSeq(s, 1, Len(s) - 1)) ELSE s

strip(s) == rstrip(lstrip(s))

\* find in place of rfind: the first position of tok
rfind_first(s, tok) ==
    LET P == {i \in 1..Len(s) : s[i] = tok}
    IN  IF P = {} THEN 0 ELSE CHOOSE i \in P : \A j \in P : i <= j

\* text.rfind(tok): the last position of tok, 0 where Python gives -1
rfind(s, tok) ==
    LET P == {i \in 1..Len(s) : s[i] = tok}
    IN  IF P = {} THEN 0 ELSE CHOOSE i \in P : \A j \in P : j <= i

\* text.find(tok) from position from: the first position of tok, 0 if none
find(s, tok, from) ==
    LET P == {i \in from..Len(s) : s[i] = tok}
    IN  IF P = {} THEN 0 ELSE CHOOSE i \in P : \A j \in P : i <= j

NO_THOUGHT == <<"(no thought)">>
NO_ACTION == "(no action)"
SYNTH_FINISH == <<MARK, SP, "finish", "[", "answer", "=", QUOTE, NO_ACTION, QUOTE, "]">>

\* ReActAgent._extract_last_thought_action
extract_last_thought_action(out) ==
    IF ~out.isStr
    THEN [thought |-> NO_THOUGHT, action_line |-> SYNTH_FINISH]
    ELSE LET text == out.text
             idx == rfind(text, MARK)
         IN  IF idx = 0
             THEN [thought |-> strip(text), action_line |-> SYNTH_FINISH]
             ELSE LET thought_part == strip(SubSeq(text, 1, idx - 1))
                      action_part == strip(SubSeq(text, idx, Len(text)))
                      first_newline == find(action_part, NL, 1)
                      action_line == IF first_newline # 0
                                     THEN SubSeq(action_part, 1, first_newline - 1)
                                     ELSE action_part
                  IN  [thought |-> IF thought_part # <<>> THEN thought_part ELSE NO_THOUGHT,
                       action_line |-> action_line]

\* _clean_thought that keeps the thought label
clean_thought_keeps_label(thought_text) ==
    LET t == strip(thought_text)
    IN  IF t # <<>> THEN t ELSE <<"(no thought)">>

\* _clean_thought without the placeholder
clean_thought_no_placeholder(thought_text) ==
    LET t == strip(thought_text)
    IN  IF t # <<>> /\ Head(t) \in ThoughtLabels THEN strip(Tail(t)) ELSE t

\* ReActAgent._clean_thought (its argument is always a str in run)
clean_thought(thought_text) ==
    LET t == strip(thought_text)
        u == IF t # <<>> /\ Head(t) \in ThoughtLabels THEN strip(Tail(t)) ELSE t
    IN  IF u # <<>> THEN u ELSE NO_THOUGHT


\* ------------------------------------------------------------------------
\* Action Parser (prompting_techniques.parse_action): one action line to
\* (name, arguments) or a parse failure.  The syntax is
\*     Action: name[key="value", key2=value2]
\* and the whole line has to match it.
\* ------------------------------------------------------------------------
Structural == {MARK, SP, NL, QUOTE, "[", "]", ",", "="}

EmptyArgs == [key \in {} |-> StrVal(<<>>)]
ParseFail == [ok |-> FALSE, name |-> "", args |-> EmptyArgs]

RECURSIVE SkipBlanks(_, _)
SkipBlanks(s, i) == IF i <= Len(s) /\ s[i] = SP THEN SkipBlanks(s, i + 1) ELSE i

\* a value at position i: "text", an integer, or a bare word
ParseValue(s, i) ==
    LET bad == [ok |-> FALSE, val |-> StrVal(<<>>), next |-> i]
    IN  IF i > Len(s) THEN bad
        ELSE IF s[i] = QUOTE
        THEN LET j == find(s, QUOTE, i + 1)
             IN  IF j = 0 THEN bad
                 ELSE [ok |-> TRUE, val |-> StrVal(SubSeq(s, i + 1, j - 1)), next |-> j + 1]
        ELSE IF s[i] \in IntTokens
        THEN [ok |-> TRUE, val |-> IntVal(int(s[i])), next |-> i + 1]
        ELSE IF s[i] \notin Structural
        THEN [ok |-> TRUE, val |-> StrVal(<<s[i]>>), next |-> i + 1]
        ELSE bad

\* key=value pairs from position i up to the closing bracket
RECURSIVE ParseArgs(_, _, _)
ParseArgs(s, i, acc) ==
    LET bad == [ok |-> FALSE, args |-> EmptyArgs, end |-> i]
    IN  IF i + 1 > Len(s) \/ s[i] \in Structural \/ s[i + 1] # "=" THEN bad
        ELSE LET v == ParseValue(s, i + 2)
                 acc2 == [key \in DOMAIN acc \cup {s[i]} |->
                             IF key = s[i] THEN v.val ELSE acc[key]]
             IN  IF ~v.ok \/ v.next > Len(s) THEN bad
                 ELSE IF s[v.next] = "," THEN ParseArgs(s, SkipBlanks(s, v.next + 1), acc2)
                 ELSE IF s[v.next] = "]" THEN [ok |-> TRUE, args |-> acc2, end |-> v.next]
                 ELSE bad

parse_action(line) ==
    LET s == strip(line)
        p == SkipBlanks(s, 2)
    IN  IF s = <<>> \/ s[1] # MARK \/ p + 2 > Len(s) THEN ParseFail
        ELSE IF s[p] \in Structural \/ s[p + 1] # "[" THEN ParseFail
        ELSE IF s[p + 2] = "]"
        THEN IF p + 2 = Len(s) THEN [ok |-> TRUE, name |-> s[p], args |-> EmptyArgs]
             ELSE ParseFail
        ELSE LET r == ParseArgs(s, p + 2, EmptyArgs)
             IN  IF r.ok /\ r.end = Len(s) THEN [ok |-> TRUE, name |-> s[p], args |-> r.args]
                 ELSE ParseFail

\* ------------------------------------------------------------------------
\* Configuration and tool registries
\* ------------------------------------------------------------------------
\* AgentConfig.allow_tools (default) and a narrower allow-list
ALLOW_DEFAULT == <<"search", "explain_term", "list_docs">>
ALLOW_SEARCH == <<"search">>
\* an allow-list that names the terminal action
ALLOW_FINISH == <<"search", "finish">>
AllowLists == {ALLOW_DEFAULT, ALLOW_SEARCH, ALLOW_FINISH}

In(name, tuple) == \E i \in 1..Len(tuple) : tuple[i] = name

\* a registry entry: the parameters of the handler's signature and those
\* without a default
Handler(params, required) == [params |-> params, required |-> required]

fn_search == Handler({"query", "k"}, {"query"})
fn_explain_term == Handler({"term"}, {"term"})
fn_list_docs == Handler({}, {})
fn_finish == Handler({"answer"}, {"answer"})

\* TOOLS of knowledge_base.py
TOOLS == [name \in {"search", "finish"} |->
             IF name = "search" THEN fn_search ELSE fn_finish]

\* TOOLS of ClariFi_AI-main/knowledge_base.py
TOOLS_MAIN == [name \in {"search", "explain_term", "list_docs", "finish"} |->
                  CASE name = "search" -> fn_search
                    [] name = "explain_term" -> fn_explain_term
                    [] name = "list_docs" -> fn_list_docs
                    [] OTHER -> fn_finish]

Registries == {TOOLS, TOOLS_MAIN}


\* ------------------------------------------------------------------------
\* What the collaborators can do
\* ------------------------------------------------------------------------
UserQueries == {"q1", "q2"}

Call(name, args) == <<MARK, SP, name, "[">> \o args \o <<"]">>
Quoted(t) == <<QUOTE>> \o t \o <<QUOTE>>

\* thought segments the generator writes before its action
Thoughts == { <<"Thought:", SP, "think", NL>>,
              <<"plain", NL>>,
              <<>> }

\* action directives of the generator
FinishActions == { Call("finish", <<"answer", "=">> \o Quoted(<<"yes">>)),
                   Call("finish", <<"answer", "=">> \o Quoted(<<SP, "yes", SP>>)),
                   Call("finish", <<"answer", "=">> \o Quoted(<<>>)),
                   Call("finish", <<"answer", "=">> \o Quoted(<<SP>>)),
                   Call("finish", <<"answer", "=", "42">>),
                   Call("finish", <<>>) }

ToolActions == { Call("search", <<"query", "=">> \o Quoted(<<"cash">>)),
                 Call("search", <<"query", "=">> \o Quoted(<<"cash">>) \o <<",", SP, "zz", "=", "7">>),
                 Call("search", <<>>),
                 Call("list_docs", <<>>),
                 Call("explain_term", <<"term", "=">> \o Quoted(<<"eps">>)),
                 Call("lookup", <<>>) }

BadActions == { <<MARK, SP, "oops">>,
                <<MARK>>,
                Call("search", <<"query", "=", QUOTE, "cash">>) }

Actions == FinishActions \cup ToolActions \cup BadActions

\* texts the generator returns
GenTexts ==
    {<<"Thought:", SP, "think", NL>> \o a : a \in Actions}
    \cup {t \o Call("search", <<"query", "=">> \o Quoted(<<"cash">>)) : t \in Thoughts}
    \cup {t \o <<MARK, SP, "oops">> : t \in Thoughts}
    \cup {t : t \in Thoughts}
    \cup { <<"Thought:">>,
           <<SP, "plain", SP, NL>>,
           <<"think", NL>> \o Call("list_docs", <<>>) \o <<NL, "Observation:", SP, "made up">>,
           <<"think", NL>> \o Call("lookup", <<>>) \o <<NL>> \o Call("finish", <<>>) }

\* values the generator returns: text, or something that is not a str
GenOutputs == {StrVal(t) : t \in GenTexts} \cup {IntVal(7)}

\* messages of the exceptions the generator raises
LlmErrors == { <<"out of memory">>,
               <<>>,
               <<"no", SP, MARK, SP, "given">>,
               <<"line one", NL, "line two">> }

\* what a tool handler returns: a payload that json.dumps accepts or rejects
Payloads == { [serializable |-> TRUE, text |-> <<"{payload}">>],
              [serializable |-> FALSE, text |-> <<"<object>">>] }

\* messages of the exceptions a handler raises
HANDLER_ERROR == <<"handler failed">>
MISSING_ARGUMENT == <<"missing 1 required positional argument">>
NOT_SERIALIZABLE == <<"Object is not JSON serializable">>
UNEXPECTED_ARGUMENT == <<"got an unexpected keyword argument">>


\* ------------------------------------------------------------------------
\* Retrieval engine (knowledge_base.py)
\*
\* Text of the knowledge base is a sequence of characters, a token is a
\* sequence of characters.  Floats are numbers of PREC significant bits on an
\* integer grid: weights and norms in units of 1/SCALE, scores in units of
\* 1/SCORE_SCALE.
\* ------------------------------------------------------------------------
MaxK == 4
MaxSearches == 2

SCALE == 100
SCORE_SCALE == 1000

VARIABLES
    CORPUS,        \* the document collection
    DOC_TOKENS,    \* the tokens of each document
    VOCAB,         \* the distinct tokens of the collection
    DF,            \* document frequency of each term
    N_DOC,         \* number of documents
    IDF,           \* inverse document frequency of each term
    DOC_VECS,      \* the tf-idf vector of each document
    searches,      \* the last search_corpus calls with their results (at most two)
    n_searches,    \* the number of search_corpus calls made
    cosines        \* the last cosine calls with their results (at most two)

kbvars == <<CORPUS, DOC_TOKENS, VOCAB, DF, N_DOC, IDF, DOC_VECS, searches, n_searches, cosines>>

Doc(id, title, text) == [id |-> id, title |-> title, text |-> text]

\* small collections: mixed documents, two documents with the same content,
\* and a single document
CORPUS_MIXED == << Doc("doc1", <<"a">>, <<"a", " ", "b">>),
                   Doc("doc2", <<"B">>, <<"b", " ", "c", "-", "c">>),
                   Doc("doc3", <<"c">>, <<"a", "'", "b", " ", "a">>) >>
CORPUS_TWINS == << Doc("doc1", <<"a">>, <<"b">>),
                   Doc("doc2", <<"a">>, <<"b">>),
                   Doc("doc3", <<"c">>, <<"c", " ", "b">>) >>
CORPUS_ONE == << Doc("doc1", <<"a">>, <<"a", " ", "c">>) >>
Corpora == {CORPUS_MIXED, CORPUS_TWINS, CORPUS_ONE}

\* query strings: empty, separators only, an unknown term, a known term,
\* upper case, a term with an apostrophe (unknown to one of the collections)
QueryTexts == { <<>>,
                <<" ", "-">>,
                <<"z">>,
                <<"a">>,
                <<"A", " ", "b">>,
                <<"a", "'", "b">> }

KValues == -1..MaxK

\* str.lower()
lower_char(ch) == CASE ch = "A" -> "a" [] ch = "B" -> "b" [] ch = "C" -> "c"
                    [] ch = "Z" -> "z" [] OTHER -> ch
lower(text) == [i \in 1..Len(text) |-> lower_char(text[i])]

\* the character class [a-zA-Z0-9']
TokenChars == {"a", "b", "c", "z", "A", "B", "C", "Z", "0", "1", "'"}

\* re.findall(r"[a-zA-Z0-9']+", text): the maximal runs of token characters
RECURSIVE findall(_, _, _, _)
findall(text, i, run, found) ==
    IF i > Len(text) THEN IF run = <<>> THEN found ELSE Append(found, run)
    ELSE IF text[i] \in TokenChars THEN findall(text, i + 1, Append(run, text[i]), found)
    ELSE findall(text, i + 1, <<>>, IF run = <<>> THEN found ELSE Append(found, run))

tokenize(text) == findall(lower(text), 1, <<>>, <<>>)

SetOf(seq) == {seq[i] : i \in 1..Len(seq)}

\* Floats have PREC significant bits: the result of every arithmetic
\* operation is rounded to the nearest representable number, ties to even.
PREC == 10

RECURSIVE ulp(_, _)
ulp(n, u) == IF n < (2 ^ PREC) * u THEN u ELSE ulp(n, 2 * u)

fl(n) ==
    LET u == ulp(n, 1)
        q == n \div u
        r == n % u
    IN  IF 2 * r < u THEN q * u
        ELSE IF 2 * r > u THEN (q + 1) * u
        ELSE IF q % 2 = 0 THEN q * u ELSE (q + 1) * u

\* product and quotient of two numbers in units of 1/SCALE
Mul(x, y) == fl((x * y) \div SCALE)
Div(x, y) == fl((x * SCALE) \div y)

\* A dict that is iterated is the sequence of its <<key, value>> items in
\* insertion order; a dict that is only looked up (DF, IDF) is a function.
keys(d) == {d[i][1] : i \in 1..Len(d)}
item(d, key) == d[CHOOSE i \in 1..Len(d) : d[i][1] = key][2]

\* the distinct tokens in the order of their first occurrence
RECURSIVE first_seen(_, _)
first_seen(tokens, seen) ==
    IF tokens = <<>> THEN seen
    ELSE first_seen(Tail(tokens),
                    IF Head(tokens) \in SetOf(seen) THEN seen ELSE Append(seen, Head(tokens)))

\* collections.Counter(tokens)
Counter(tokens) ==
    LET ks == first_seen(tokens, <<>>)
    IN  [i \in 1..Len(ks) |->
            <<ks[i], Cardinality({j \in 1..Len(tokens) : tokens[j] = ks[i]})>>]

compute_tf(tokens) ==
    IF tokens = <<>> THEN <<>>
    ELSE LET counts == Counter(tokens)
             total == Len(tokens)
         IN  [i \in 1..Len(counts) |-> <<counts[i][1], Div(counts[i][2], total)>>]

\* a document frequency that counts every occurrence of the term
compute_df_occurrences(doc_tokens, vocab) ==
    LET seen == UNION {SetOf(doc_tokens[i]) : i \in 1..Len(doc_tokens)}
    IN  [t \in seen \cup vocab |->
            Cardinality(UNION {{<<i, j>> : j \in {o \in 1..Len(doc_tokens[i]) : doc_tokens[i][o] = t}} :
                                  i \in 1..Len(doc_tokens)})]

compute_df(doc_tokens, vocab) ==
    LET seen == UNION {SetOf(doc_tokens[i]) : i \in 1..Len(doc_tokens)}
    IN  [t \in seen \cup vocab |->
            Cardinality({i \in 1..Len(doc_tokens) : t \in SetOf(doc_tokens[i])})]

\* 1000 * ln(n), n = 1..16
LN_MILLI == <<0, 693, 1099, 1386, 1609, 1792, 1946, 2079,
              2197, 2303, 2398, 2485, 2565, 2639, 2708, 2773>>

\* math.log(num / den), in units of 1/SCALE
math_log(num, den) == fl(((LN_MILLI[num] - LN_MILLI[den]) * SCALE) \div 1000)

\* the unsmoothed inverse document frequency ln(N / DF)
idf_unsmoothed(n_doc, df) == math_log(n_doc, df)

\* math.log((N_DOC + 1) / (DF[t] + 0.5)) + 1
idf(n_doc, df) == fl(math_log(2 * (n_doc + 1), 2 * df + 1) + SCALE)

\* IDF.get(t, 0.0)
get(d, key, default) == IF key \in DOMAIN d THEN d[key] ELSE default

\* a dense vector: one key for every term of the index, weight 0 for a term
\* that the tokens do not hold
tfidf_vector_dense(tokens, idf_table) ==
    LET tf == compute_tf(tokens)
        rest == CHOOSE seq \in [1..Cardinality(DOMAIN idf_table \ keys(tf)) -> DOMAIN idf_table] :
                    SetOf(seq) = DOMAIN idf_table \ keys(tf)
    IN  [i \in 1..Len(tf) |-> <<tf[i][1], Mul(tf[i][2], get(idf_table, tf[i][1], 0))>>]
        \o [i \in 1..Len(rest) |-> <<rest[i], 0>>]

tfidf_vector(tokens, idf_table) ==
    LET tf == compute_tf(tokens)
    IN  [i \in 1..Len(tf) |-> <<tf[i][1], Mul(tf[i][2], get(idf_table, tf[i][1], 0))>>]

\* for k, v in a.items(): if k in b: dot += v * b[k]
RECURSIVE dot_product(_, _, _)
dot_product(a, b, dot) ==
    IF a = <<>> THEN dot
    ELSE LET k == Head(a)[1]
             v == Head(a)[2]
         IN  dot_product(Tail(a), b,
                         IF k \in keys(b) THEN fl(dot + fl(v * item(b, k))) ELSE dot)

\* sum(v * v for v in a.values())
RECURSIVE sum_squares(_, _)
sum_squares(a, total) ==
    IF a = <<>> THEN total
    ELSE sum_squares(Tail(a), fl(total + fl(Head(a)[2] * Head(a)[2])))

\* math.sqrt: the integer square root
RECURSIVE sqrt_between(_, _, _)
sqrt_between(x, lo, hi) ==
    IF lo >= hi THEN lo
    ELSE LET mid == (lo + hi + 1) \div 2
         IN  IF mid * mid <= x THEN sqrt_between(x, mid, hi) ELSE sqrt_between(x, lo, mid - 1)
sqrt(x) == fl(sqrt_between(x, 0, IF x < 30000 THEN x ELSE 30000))

norm(a) == sqrt(sum_squares(a, 0))

\* the division dot / (norm_a * norm_b) is reached with a zero divisor
zero_division(a, b) ==
    /\ ~(a = <<>> \/ b = <<>>)
    /\ LET norm_a == norm(a)
           norm_b == norm(b)
       IN  /\ ~(norm_a = 0 \/ norm_b = 0)
           /\ fl(norm_a * norm_b) = 0

\* a cosine that takes two vectors without direction for a perfect match
cosine_null_matches(a, b) ==
    IF a = <<>> \/ b = <<>> THEN SCORE_SCALE
    ELSE IF norm(a) = 0 \/ norm(b) = 0 THEN SCORE_SCALE
    ELSE fl((dot_product(a, b, 0) * SCORE_SCALE) \div fl(norm(a) * norm(b)))

\* a cosine that takes an empty vector for a perfect match
cosine_empty_matches(a, b) ==
    IF a = <<>> \/ b = <<>> THEN SCORE_SCALE
    ELSE IF norm(a) = 0 \/ norm(b) = 0 THEN 0
    ELSE fl((dot_product(a, b, 0) * SCORE_SCALE) \div fl(norm(a) * norm(b)))

\* cosine similarity of two sparse vectors, in units of 1/SCORE_SCALE
cosine(a, b) ==
    IF a = <<>> \/ b = <<>> THEN 0
    ELSE LET dot == dot_product(a, b, 0)
             norm_a == norm(a)
             norm_b == norm(b)
         IN  IF norm_a = 0 \/ norm_b = 0 THEN 0
             ELSE fl((dot * SCORE_SCALE) \div fl(norm_a * norm_b))

\* tuple comparison of (score, index) pairs
PairLess(x, y) == x[1] < y[1] \/ (x[1] = y[1] /\ x[2] < y[2])

\* a sort in ascending order
RECURSIVE sort_forward(_)
sort_forward(pairs) ==
    IF pairs = {} THEN <<>>
    ELSE LET low == CHOOSE x \in pairs : \A y \in pairs : y = x \/ PairLess(x, y)
         IN  <<low>> \o sort_forward(pairs \ {low})

\* a descending sort whose order among equal scores depends on the score:
\* later documents first when the score is positive, earlier ones first at zero
RECURSIVE sort_reverse_ties_by_score(_)
sort_reverse_ties_by_score(pairs) ==
    IF pairs = {} THEN <<>>
    ELSE LET top == CHOOSE x \in pairs : \A y \in pairs :
                        \/ y = x
                        \/ y[1] < x[1]
                        \/ y[1] = x[1] /\ (IF x[1] > 0 THEN y[2] < x[2] ELSE x[2] < y[2])
         IN  <<top>> \o sort_reverse_ties_by_score(pairs \ {top})

\* scored.sort(reverse=True)
RECURSIVE sort_reverse(_)
sort_reverse(pairs) ==
    IF pairs = {} THEN <<>>
    ELSE LET top == CHOOSE x \in pairs : \A y \in pairs : y = x \/ PairLess(y, x)
         IN  <<top>> \o sort_reverse(pairs \ {top})

\* seq[:k]
slice_to(seq, k) ==
    LET stop == IF k < 0 THEN (IF Len(seq) + k > 0 THEN Len(seq) + k ELSE 0)
                ELSE (IF k < Len(seq) THEN k ELSE Len(seq))
    IN  SubSeq(seq, 1, stop)

\* d = CORPUS[idx].copy(); d["score"] = float(score)
with_score(d, score) == [id |-> d.id, title |-> d.title, text |-> d.text, score |-> score]

\* the (score, index) pairs that search_corpus turns into results
ranked(query, k, idf_table, doc_vecs) ==
    LET qvec == tfidf_vector(tokenize(query), idf_table)
        scored == {<<cosine(qvec, doc_vecs[i + 1]), i>> : i \in 0..(Len(doc_vecs) - 1)}
    IN  slice_to(sort_reverse(scored), k)

\* for score, idx in top: d = CORPUS[idx].copy(); d["score"] = score
copies(corpus, top) == [r \in 1..Len(top) |-> with_score(corpus[top[r][2] + 1], top[r][1])]

search_corpus(query, k, corpus, idf_table, doc_vecs) ==
    copies(corpus, ranked(query, k, idf_table, doc_vecs))

\* d = CORPUS[idx]: the element of the collection itself
no_copy(place) == place

\* d = CORPUS[idx].copy(): the place in the collection of the dict that d
\* names; a copy is a new dict and has no place (0)
copy(place) == 0

\* the collection after the assignments d["score"] = float(score) of a call
corpus_after(corpus, top) ==
    [i \in 1..Len(corpus) |->
        IF \E r \in 1..Len(top) : copy(top[r][2] + 1) = i
        THEN with_score(corpus[i], top[CHOOSE r \in 1..Len(top) : copy(top[r][2] + 1) = i][1])
        ELSE corpus[i]]

\* the program constant of tool_search: the length of a snippet
SNIPPET_CHARS == 240

\* h["text"][:240] + ("..." if len(h["text"]) > 240 else "")
snippet(text) ==
    IF Len(text) > SNIPPET_CHARS THEN SubSeq(text, 1, SNIPPET_CHARS) \o <<".", ".", ".">>
    ELSE text

tool_search(query, k, corpus, idf_table, doc_vecs) ==
    LET hits == search_corpus(query, k, corpus, idf_table, doc_vecs)
    IN  [tool |-> "search",
         query |-> query,
         results |-> [r \in 1..Len(hits) |->
                         [id |-> hits[r].id, title |-> hits[r].title,
                          snippet |-> snippet(hits[r].text)]]]

\* search_corpus(query, k) ends with an exception: the only partial operation
\* on its path is the division in cosine
search_raises(query, idf_table, doc_vecs) ==
    LET qvec == tfidf_vector(tokenize(query), idf_table)
    IN  \E i \in 1..Len(doc_vecs) : zero_division(qvec, doc_vecs[i])

\* the module-level index construction
KBInit(corpus) ==
    LET doc_tokens == [i \in 1..Len(corpus) |->
                          tokenize(corpus[i].title \o <<" ">> \o corpus[i].text)]
        vocab == UNION {SetOf(doc_tokens[i]) : i \in 1..Len(doc_tokens)}
        df == compute_df(doc_tokens, vocab)
        n_doc == Len(doc_tokens)
        idf_table == [t \in vocab |-> idf(n_doc, df[t])]
    IN  /\ CORPUS = corpus
        /\ DOC_TOKENS = doc_tokens
        /\ VOCAB = vocab
        /\ DF = df
        /\ N_DOC = n_doc
        /\ IDF = idf_table
        /\ DOC_VECS = [i \in 1..Len(doc_tokens) |-> tfidf_vector(doc_tokens[i], idf_table)]
        /\ searches = <<>>
        /\ n_searches = 0
        /\ cosines = <<>>

\* ------------------------------------------------------------------------
\* State
\* ------------------------------------------------------------------------
VARIABLES
    pc,            \* where run is: "idle", "llm" (generator call in flight),
                   \* "tool" (handler call in flight), "returned", "raised"
    max_steps,     \* config.max_steps
    allow_tools,   \* config.allow_tools
    tools,         \* self.tools
    user_query,    \* the argument of run
    trajectory,    \* self.trajectory
    final_answer,  \* the local final_answer of run
    step_idx,      \* the loop variable of run
    prompt,        \* the arguments of the last make_prompt call
    pending,       \* the handler call in flight: thought, action line, name, arguments
    exit,          \* how the loop was left
    result,        \* the mapping run returned (empty while run has not returned)
    log,           \* the calls and appends of the current run, in order
    runs           \* the number of runs started on this agent

agentvars == <<pc, max_steps, allow_tools, tools, user_query, trajectory, final_answer,
               step_idx, prompt, pending, exit, result, log, runs>>

vars == <<agentvars, kbvars>>

\* Optional[str]
None == [isNone |-> TRUE, text |-> <<>>]
Some(t) == [isNone |-> FALSE, text |-> t]
\* Python's  not x  for an Optional[str]
Falsy(x) == x.isNone \/ x.text = <<>>

\* Step(thought, action, observation) and dataclasses.asdict
Step(thought, action, observation) == <<thought, action, observation>>
asdict(s) == [thought |-> s[1], action |-> s[2], observation |-> s[3]]
traj_dicts(traj) == [i \in 1..Len(traj) |-> asdict(traj[i])]

APOLOGY == <<"I'm sorry, I couldn't generate an answer.">>

Event(ev, it, name, text) == [ev |-> ev, it |-> it, name |-> name, text |-> text]
NoPending == [thought |-> <<>>, action_line |-> <<>>, name |-> "", args |-> EmptyArgs]

\* observations
InvalidObs(action_line) == <<"Invalid action format: ">> \o action_line
DoneObs == <<"done">>
DisallowedObs(name) == <<"Action '", name, "' not allowed or not found.">>
ToolErrorObs(e) == <<"Tool error: ">> \o e

\* the text that stands in for the generator's output when it raises
llm_error_out(e) ==
    <<"I encountered an error while generating a response.", NL>>
    \o <<MARK, SP, "finish", "[", "answer", "=", QUOTE, "Tool error calling LLM:", SP>>
    \o e \o <<QUOTE, "]">>

\* the generator call without its exception handler
llm_except_missing(e) == [caught |-> FALSE, out |-> StrVal(<<>>)]

\* try: out = self.llm(prompt)  except Exception as e: out = ...
llm_except(e) == [caught |-> TRUE, out |-> StrVal(llm_error_out(e))]

\* the handler call without its exception handler
tool_except_missing(e) == [caught |-> FALSE, observation |-> <<>>]

\* the tool handler that reports a failure without its message
tool_except_no_message(e) == [caught |-> TRUE, observation |-> <<"Tool error: ">>]

\* try: ... tool_fn(**valid_args); json.dumps(...)  except Exception as e: observation = ...
tool_except(e) == [caught |-> TRUE, observation |-> ToolErrorObs(e)]

\* json.dumps(obs_payload, ensure_ascii=False)
json_dumps(payload) ==
    IF payload.serializable THEN [ok |-> TRUE, text |-> <<"json">> \o payload.text]
    ELSE [ok |-> FALSE, text |-> NOT_SERIALIZABLE]

\* the call that passes every parsed argument on
valid_args_unfiltered(args, params) == args

\* {k: v for k, v in args.items() if k in sig.parameters}
valid_args(args, params) == [key \in DOMAIN args \cap params |-> args[key]]

\* args.get("answer", ""), str() of a non-str, strip()
finish_answer(args) ==
    LET ans == IF "answer" \in DOMAIN args THEN args["answer"] ELSE StrVal(<<>>)
    IN  strip(str(ans))

\* the fallback that is taken only when no finish answer was stored
resolve_final_answer_none_only(fa, traj) ==
    IF fa.isNone
    THEN IF traj # <<>> THEN traj[Len(traj)][1] ELSE APOLOGY
    ELSE fa.text

\* the fallback that takes the first thought instead of the last
resolve_final_answer_first(fa, traj) ==
    IF Falsy(fa)
    THEN IF traj # <<>> THEN traj[1][1] ELSE APOLOGY
    ELSE fa.text

\* the fallback that takes the last observation instead of the last thought
resolve_final_answer_observation(fa, traj) ==
    IF Falsy(fa)
    THEN IF traj # <<>> THEN traj[Len(traj)][3] ELSE APOLOGY
    ELSE fa.text

\* the final-answer block at the end of run
resolve_final_answer(fa, traj) ==
    IF Falsy(fa)
    THEN IF traj # <<>> THEN traj[Len(traj)][1] ELSE APOLOGY
    ELSE fa.text

run_result(q, fa, traj) ==
    [question |-> q, final_answer |-> fa, steps |-> traj_dicts(traj)]

Init ==
    /\ pc = "idle"
    /\ max_steps \in -1..MaxStepsBound
    /\ allow_tools \in AllowLists
    /\ tools \in Registries
    /\ user_query = ""
    /\ trajectory = <<>>
    /\ final_answer = None
    /\ step_idx = 0
    /\ prompt = [user_query |-> "", trajectory |-> <<>>]
    /\ pending = NoPending
    /\ exit = "RUNNING"
    /\ result = <<>>
    /\ log = <<>>
    /\ runs = 0
    /\ KBInit(CORPUS_MIXED)

\* the loop is left (break or exhaustion): resolve the answer and return
Return(q, traj, fa, how, idx, lg) ==
    /\ pc' = "returned"
    /\ user_query' = q
    /\ trajectory' = traj
    /\ final_answer' = Some(resolve_final_answer(fa, traj))
    /\ result' = run_result(q, resolve_final_answer(fa, traj), traj)
    /\ exit' = how
    /\ step_idx' = idx
    /\ log' = lg
    /\ pending' = NoPending
    /\ UNCHANGED <<max_steps, allow_tools, tools, prompt>>

\* range(max_steps + 1): one iteration too many
in_range_inclusive(idx, n) == 0 <= idx /\ idx <= n

\* range(max_steps - 1): one iteration too few
in_range_short(idx, n) == 0 <= idx /\ idx < n - 1

\* step_idx in range(max_steps)
in_range(idx, n) == 0 <= idx /\ idx < n

\* for step_idx in range(max_steps): build the prompt and call the generator
LoopHead(q, traj, idx, lg) ==
    IF in_range(idx, max_steps)
    THEN /\ pc' = "llm"
         /\ user_query' = q
         /\ trajectory' = traj
         /\ final_answer' = None
         /\ step_idx' = idx
         /\ prompt' = [user_query |-> q, trajectory |-> traj_dicts(traj)]
         /\ log' = Append(lg, Event("llm_call", idx, "", <<>>))
         /\ exit' = "RUNNING"
         /\ pending' = NoPending
         /\ result' = <<>>
         /\ UNCHANGED <<max_steps, allow_tools, tools>>
    ELSE Return(q, traj, None, "TERMINATED_MAX_STEPS", IF idx = 0 THEN 0 ELSE idx - 1, lg)

\* a run that keeps the steps of the run before
clear_keeps(traj) == traj

\* self.trajectory.clear()
clear(traj) == <<>>

\* run(user_query) up to the first generator call
RunStart(q) ==
    /\ pc \in {"idle", "returned"}
    /\ runs < MaxRuns
    /\ runs' = runs + 1
    /\ UNCHANGED kbvars
    /\ LoopHead(q, clear(trajectory), 0, <<>>)


\* the loop body without the break after an invalid action
breaks_not_on_invalid(kind) == kind \in {"finish", "disallowed"}

\* the break statements of the loop body: which outcomes leave the loop
breaks(kind) == kind \in {"invalid", "finish", "disallowed"}

\* the check that forgets the allow-list
permitted_registry_only(name, allow, registry) == name \in DOMAIN registry

\* the negation of: name not in self.config.allow_tools or name not in self.tools
permitted(name, allow, registry) == In(name, allow) /\ name \in DOMAIN registry

\* an order that asks the allow-list and the registry before it looks for
\* the terminal action
decide_permission_first(parsed, allow, registry) ==
    IF ~parsed.ok THEN "invalid"
    ELSE IF ~permitted(parsed.name, allow, registry) THEN "disallowed"
    ELSE IF parsed.name = "finish" THEN "finish"
    ELSE "tool"

\* the outcome of an iteration, decided in the order of the code: parse
\* failure, then the terminal action, then the allow-list and registry check
decide(parsed, allow, registry) ==
    IF ~parsed.ok THEN "invalid"
    ELSE IF parsed.name = "finish" THEN "finish"
    ELSE IF ~permitted(parsed.name, allow, registry) THEN "disallowed"
    ELSE "tool"

\* an append that stores the step twice
append_step_twice(traj, step) == Append(Append(traj, step), step)

\* self.trajectory.append(Step(thought, action_line, observation))
append_step(traj, step) == Append(traj, step)

\* the raw outputs an iteration can see: what the generator returns and what
\* the exception handler puts in its place
RawOutputs == GenOutputs \cup {llm_except(e).out : e \in LlmErrors}

\* steps 3 and 4 of an iteration for each raw output: the thought, the action
\* line and the parsed action
read ==
    [out \in RawOutputs |->
        LET ex == extract_last_thought_action(out)
        IN  [thought |-> clean_thought(ex.thought),
             action_line |-> ex.action_line,
             parsed |-> parse_action(ex.action_line)]]

\* steps 3 to 7 of an iteration, from the raw output to a break or to the
\* handler call
Dispatch(out, lg) ==
    LET thought == read[out].thought
        action_line == read[out].action_line
        parsed == read[out].parsed
        name == parsed.name
        outcome == decide(parsed, allow_tools, tools)
        lgA == Append(lg, Event("append", step_idx, "", <<>>))
        Leave(kind, obs, fa, how) ==
            LET traj == append_step(trajectory, Step(thought, action_line, obs))
            IN  IF breaks(kind)
                THEN Return(user_query, traj, fa, how, step_idx, lgA)
                ELSE LoopHead(user_query, traj, step_idx + 1, lgA)
    IN  IF outcome = "invalid"
        THEN Leave("invalid", InvalidObs(action_line), None, "TERMINATED_INVALID")
        ELSE IF outcome = "finish"
        THEN Leave("finish", DoneObs, Some(finish_answer(parsed.args)), "TERMINATED_FINISH")
        ELSE IF outcome = "disallowed"
        THEN Leave("disallowed", DisallowedObs(name), None, "TERMINATED_DISALLOWED")
        ELSE /\ pc' = "tool"
             /\ pending' = [thought |-> thought, action_line |-> action_line, name |-> name,
                            args |-> valid_args(parsed.args, tools[name].params)]
             /\ log' = Append(lg, Event("tool_call", step_idx, name, <<>>))
             /\ UNCHANGED <<max_steps, allow_tools, tools, user_query, trajectory,
                            final_answer, step_idx, prompt, exit, result>>

\* an exception leaves run
Propagate ==
    /\ pc' = "raised"
    /\ UNCHANGED <<max_steps, allow_tools, tools, user_query, trajectory, final_answer,
                   step_idx, prompt, pending, exit, result, log>>

\* the generator returns out
LLMReturn(out) ==
    /\ pc = "llm"
    /\ UNCHANGED <<runs, kbvars>>
    /\ Dispatch(out, Append(log, Event("llm_return", step_idx,
                                     IF out.isStr THEN "str" ELSE "non-str", out.text)))

\* the generator raises an exception with message e
LLMRaise(e) ==
    /\ pc = "llm"
    /\ UNCHANGED <<runs, kbvars>>
    /\ LET h == llm_except(e)
       IN  IF h.caught
           THEN Dispatch(h.out, Append(log, Event("llm_raise", step_idx, "", e)))
           ELSE Propagate

\* the end of an iteration that ran a tool: append the step, next iteration
ToolDone(obs, lg) ==
    LoopHead(user_query,
             append_step(trajectory, Step(pending.thought, pending.action_line, obs)),
             step_idx + 1,
             Append(lg, Event("append", step_idx, "", <<>>)))

\* tool_fn(**kwargs) binds: every parameter without a default is given and
\* every keyword is a parameter
binds(kwargs, handler) ==
    /\ handler.required \subseteq DOMAIN kwargs
    /\ DOMAIN kwargs \subseteq handler.params

\* the handler returns payload
ToolReturn(payload) ==
    /\ pc = "tool"
    /\ binds(pending.args, tools[pending.name])
    /\ UNCHANGED <<runs, kbvars>>
    /\ LET d == json_dumps(payload)
           lg == Append(log, Event("tool_return", step_idx, pending.name,
                                   IF d.ok THEN <<>> ELSE d.text))
       IN  IF d.ok THEN ToolDone(d.text, lg)
           ELSE LET h == tool_except(d.text)
                IN  IF h.caught THEN ToolDone(h.observation, lg) ELSE Propagate

\* the handler raises: on its own, or because the call does not bind
ToolRaise ==
    /\ pc = "tool"
    /\ UNCHANGED <<runs, kbvars>>
    /\ LET e == IF binds(pending.args, tools[pending.name]) THEN HANDLER_ERROR
                ELSE IF tools[pending.name].required \subseteq DOMAIN pending.args
                THEN UNEXPECTED_ARGUMENT ELSE MISSING_ARGUMENT
           h == tool_except(e)
       IN  IF h.caught
           THEN ToolDone(h.observation, Append(log, Event("tool_raise", step_idx, pending.name, e)))
           ELSE Propagate

Next ==
    \/ \E q \in UserQueries : RunStart(q)
    \/ \E out \in GenOutputs : LLMReturn(out)
    \/ \E e \in LlmErrors : LLMRaise(e)
    \/ \E payload \in Payloads : ToolReturn(payload)
    \/ ToolRaise

Spec == Init /\ [][Next]_vars

\* the collaborators answer every call: the scheduling behind "eventually"
FairSpec == Spec /\ WF_vars(\E out \in GenOutputs : LLMReturn(out))
                 /\ WF_vars(\E payload \in Payloads : ToolReturn(payload))
                 /\ WF_vars(ToolRaise)

\* the knowledge base on its own: the module is imported over some collection
\* and search_corpus is called; no agent runs
AgentIdle ==
    /\ pc = "idle"
    /\ max_steps = MaxStepsBound
    /\ allow_tools = ALLOW_DEFAULT
    /\ tools = TOOLS
    /\ user_query = ""
    /\ trajectory = <<>>
    /\ final_answer = None
    /\ step_idx = 0
    /\ prompt = [user_query |-> "", trajectory |-> <<>>]
    /\ pending = NoPending
    /\ exit = "RUNNING"
    /\ result = <<>>
    /\ log = <<>>
    /\ runs = 0

InitKB ==
    /\ AgentIdle
    /\ \E corpus \in Corpora : KBInit(corpus)

\* a finished call of fn: results are the hits of search_corpus, payload is
\* what tool_search returned (nothing for a direct call of search_corpus)
Search(fn, query, k, raised, results, payload) ==
    [fn |-> fn, query |-> query, k |-> k, raised |-> raised,
     results |-> IF raised THEN <<>> ELSE results,
     payload |-> IF raised THEN <<>> ELSE payload]

\* the last two calls are remembered
remember(history, call) ==
    IF Len(history) < 2 THEN Append(history, call) ELSE <<history[2], call>>

\* search_corpus(query, k) is called and returns
SearchCorpus(query, k) ==
    /\ n_searches < MaxSearches
    /\ n_searches' = n_searches + 1
    /\ \E top \in {ranked(query, k, IDF, DOC_VECS)} :
        /\ searches' = remember(searches, Search("search_corpus", query, k,
                                                  search_raises(query, IDF, DOC_VECS),
                                                  copies(CORPUS, top),
                                                  <<>>))
        /\ CORPUS' = corpus_after(CORPUS, top)
    /\ UNCHANGED <<DOC_TOKENS, VOCAB, DF, N_DOC, IDF, DOC_VECS, cosines>>
    /\ UNCHANGED agentvars

\* tool_search is called with the default k = 3 on queries of known terms
DEFAULT_K == 3
ToolKValues == {DEFAULT_K}
ToolQueryTexts == { <<"a">>, <<"A", " ", "b">> }

\* tool_search(query, k) is called and returns
ToolSearch(query, k) ==
    /\ n_searches < MaxSearches
    /\ n_searches' = n_searches + 1
    /\ searches' = remember(searches, Search("tool_search", query, k,
                                              search_raises(query, IDF, DOC_VECS),
                                              search_corpus(query, k, CORPUS, IDF, DOC_VECS),
                                              tool_search(query, k, CORPUS, IDF, DOC_VECS)))
    /\ CORPUS' = corpus_after(CORPUS, ranked(query, k, IDF, DOC_VECS))
    /\ UNCHANGED <<DOC_TOKENS, VOCAB, DF, N_DOC, IDF, DOC_VECS, cosines>>
    /\ UNCHANGED agentvars

NextKB ==
    \/ \E query \in QueryTexts, k \in KValues : SearchCorpus(query, k)
    \/ \E query \in ToolQueryTexts, k \in ToolKValues : ToolSearch(query, k)

SpecKB == InitKB /\ [][NextKB]_vars

\* cosine on its own: the function is called on pairs of sparse vectors
\* an empty vector, vectors of zero weights only, and vectors that share up
\* to three keys in different insertion orders
Vectors == { <<>>,
             << <<"z", 0>> >>,
             << <<"a", 0>>, <<"b", 0>> >>,
             << <<"c", 100>> >>,
             << <<"a", 50>>, <<"z", 0>> >>,
             << <<"b", 198>>, <<"a", 66>> >>,
             << <<"a", 33>>, <<"b", 33>>, <<"c", 33>> >>,
             << <<"a", 66>>, <<"c", 113>>, <<"b", 198>> >> }

InitCosine ==
    /\ AgentIdle
    /\ KBInit(CORPUS_MIXED)

CosineCall(a, b, raised, value) ==
    [a |-> a, b |-> b, raised |-> raised, value |-> IF raised THEN 0 ELSE value]

\* cosine(a, b) is called and returns
Cosine(a, b) ==
    /\ cosines' = remember(cosines, CosineCall(a, b, zero_division(a, b), cosine(a, b)))
    /\ UNCHANGED <<CORPUS, DOC_TOKENS, VOCAB, DF, N_DOC, IDF, DOC_VECS, searches, n_searches>>
    /\ UNCHANGED agentvars

NextCosine == \E a \in Vectors, b \in Vectors : Cosine(a, b)

SpecCosine == InitCosine /\ [][NextCosine]_vars

TypeOK ==
    /\ pc \in {"idle", "llm", "tool", "returned", "raised"}
    /\ max_steps \in -1..MaxStepsBound
    /\ step_idx \in Nat
    /\ runs \in 0..MaxRuns
    /\ exit \in {"RUNNING", "TERMINATED_FINISH", "TERMINATED_INVALID",
                 "TERMINATED_DISALLOWED", "TERMINATED_MAX_STEPS"}


\* ------------------------------------------------------------------------
\* Properties
\* ------------------------------------------------------------------------
Count(ev) == Cardinality({j \in DOMAIN log : log[j].ev = ev})
CountIn(ev, it) == Cardinality({j \in DOMAIN log : log[j].ev = ev /\ log[j].it = it})
Has(ev) == \E j \in DOMAIN log : log[j].ev = ev
\* the parse of every action line an iteration can record
Parses == [line \in {read[out].action_line : out \in RawOutputs} |-> parse_action(line)]
\* what the parser made of the action line of step k
ParsedOf(k) == Parses[trajectory[k][2]]
StepLimit == IF max_steps > 0 THEN max_steps ELSE 0

\* C1: whatever the generator, the parser and the handlers do (return or
\* raise), run raises nothing and returns a mapping with exactly the keys
\* question (the input query), final_answer and steps, one
\* {thought, action, observation} record per trajectory step, in order.
C1_RunReturnsWellFormed ==
    /\ pc # "raised"
    /\ pc = "returned" =>
        /\ DOMAIN result = {"question", "final_answer", "steps"}
        /\ result.question = user_query
        /\ Len(result.steps) = Count("append")
        /\ Len(result.steps) = Len(trajectory)
        /\ \A i \in 1..Len(trajectory) :
              result.steps[i] = [thought |-> trajectory[i][1],
                                 action |-> trajectory[i][2],
                                 observation |-> trajectory[i][3]]

\* a run that returned after a handler raised and the generator raised
C1_Witness ==
    /\ pc = "returned"
    /\ Has("tool_raise")
    /\ Has("llm_raise")
    /\ Len(result.steps) = 2

\* C2: the generator is invoked at most max_steps times and the trajectory
\* has at most max_steps steps; with max_steps <= 0 the generator is never
\* invoked and the trajectory stays empty.
C2_AtMostMaxSteps ==
    /\ Count("llm_call") <= StepLimit
    /\ Len(trajectory) <= StepLimit
    /\ pc = "returned" => Len(result.steps) <= StepLimit

\* a run that used all its iterations
C2_Witness ==
    /\ pc = "returned"
    /\ max_steps >= 2
    /\ Count("llm_call") = max_steps
    /\ Len(trajectory) = max_steps

\* C3: when the generator raises, whatever the message, the iteration runs no
\* tool, appends one step whose action is the finish directive carrying the
\* error text, and the run ends there at TERMINATED_FINISH with a final
\* answer that describes the generator error.
C3_GeneratorErrorFinishes ==
    \A j \in DOMAIN log : log[j].ev = "llm_raise" =>
        /\ pc = "returned"
        /\ exit = "TERMINATED_FINISH"
        /\ j + 1 = Len(log)
        /\ log[j + 1].ev = "append"
        /\ CountIn("tool_call", log[j].it) = 0
        /\ Len(trajectory) = log[j].it + 1
        /\ trajectory[Len(trajectory)][2] =
              <<"Action:", " ", "finish", "[", "answer", "=", "\"",
                "Tool error calling LLM:", " ">> \o log[j].text \o <<"\"", "]">>
        /\ result.final_answer = strip(<<"Tool error calling LLM:", " ">> \o log[j].text)

\* C4: when the parser fails on the action line of an iteration, the
\* iteration appends one step whose observation reports the invalid action,
\* runs no tool, and the run ends at TERMINATED_INVALID at once: that step
\* is the last and the generator is not invoked again.
C4_ParseFailureEndsRun ==
    /\ pc = "returned" => Count("append") = Count("llm_call")
    /\ \A k \in 1..Len(trajectory) : ~ParsedOf(k).ok =>
        /\ k = Len(trajectory)
        /\ trajectory[k][3] = <<"Invalid action format: ">> \o trajectory[k][2]
        /\ pc = "returned"
        /\ exit = "TERMINATED_INVALID"
        /\ CountIn("tool_call", k - 1) = 0
        /\ CountIn("append", k - 1) = 1
        /\ Count("llm_call") = k

\* a parse failure in the first of two allowed iterations
C4_Witness ==
    /\ pc = "returned"
    /\ exit = "TERMINATED_INVALID"
    /\ max_steps = 2
    /\ Len(trajectory) = 1
    /\ ~ParsedOf(1).ok

\* C5: when the parsed action is finish, whatever its answer argument (a
\* string or not, empty, blank or missing), the returned final_answer is the
\* answer as text without surrounding whitespace, the step has observation
\* "done", and the run ends at TERMINATED_FINISH with no further iteration.
C5_FinishAnswerReturned ==
    \A k \in 1..Len(trajectory) : (ParsedOf(k).ok /\ ParsedOf(k).name = "finish") =>
        /\ k = Len(trajectory)
        /\ trajectory[k][3] = <<"done">>
        /\ pc = "returned"
        /\ exit = "TERMINATED_FINISH"
        /\ Count("llm_call") = k
        /\ result.final_answer =
              LET args == ParsedOf(k).args
              IN  IF "answer" \in DOMAIN args THEN strip(str(args["answer"])) ELSE <<>>

\* C6: a parsed non-terminal action whose name is missing from allow_tools or
\* from the registry gets one step that reports it as not allowed or not
\* found, ends the run at TERMINATED_DISALLOWED and runs no handler; a
\* handler runs only for a name that is in both.
C6_OnlyPermittedToolsRun ==
    /\ \A k \in 1..Len(trajectory) :
          LET name == ParsedOf(k).name
          IN  ( /\ ParsedOf(k).ok
                /\ name # "finish"
                /\ (~In(name, allow_tools) \/ name \notin DOMAIN tools) ) =>
                    /\ k = Len(trajectory)
                    /\ trajectory[k][3] = <<"Action '", name, "' not allowed or not found.">>
                    /\ pc = "returned"
                    /\ exit = "TERMINATED_DISALLOWED"
                    /\ CountIn("tool_call", k - 1) = 0
                    /\ CountIn("append", k - 1) = 1
    /\ \A j \in DOMAIN log : log[j].ev = "tool_call" =>
          In(log[j].name, allow_tools) /\ log[j].name \in DOMAIN tools
    /\ pc = "tool" => In(pending.name, allow_tools) /\ pending.name \in DOMAIN tools

\* a registered tool that the allow-list leaves out, asked for in iteration 2
C6_Witness ==
    /\ pc = "returned"
    /\ exit = "TERMINATED_DISALLOWED"
    /\ Len(trajectory) = 2
    /\ ParsedOf(2).name \in DOMAIN tools
    /\ ~In(ParsedOf(2).name, allow_tools)

\* a handler raised, or returned a payload that json.dumps rejects
IsToolFailure(e) == e.ev = "tool_raise" \/ (e.ev = "tool_return" /\ e.text # <<>>)

\* C7: when an allowed tool's handler raises (or its payload cannot be
\* serialized) in iteration i, the iteration appends one step whose
\* observation is the tool-failure text, the run does not end because of it,
\* and when i < max_steps the generator is invoked again in iteration i+1
\* with a prompt built from a trajectory that contains the failure step.
C7_ToolFailureContinues ==
    \A j \in DOMAIN log : IsToolFailure(log[j]) =>
        LET it == log[j].it
            failure == <<"Tool error: ">> \o log[j].text
        IN  /\ j + 1 \in DOMAIN log
            /\ log[j + 1].ev = "append"
            /\ log[j + 1].it = it
            /\ CountIn("append", it) = 1
            /\ Len(trajectory) >= it + 1
            /\ trajectory[it + 1][3] = failure
            /\ IF it + 1 < max_steps
               THEN /\ j + 2 \in DOMAIN log
                    /\ log[j + 2].ev = "llm_call"
                    /\ log[j + 2].it = it + 1
                    /\ j + 2 = Len(log) =>
                          /\ pc = "llm"
                          /\ exit = "RUNNING"
                          /\ Len(prompt.trajectory) = it + 1
                          /\ prompt.trajectory[it + 1].observation = failure
               ELSE /\ j + 1 = Len(log)
                    /\ pc = "returned"
                    /\ exit = "TERMINATED_MAX_STEPS"

\* the generator has just been invoked again after a payload that could not
\* be serialized
C7_Witness ==
    /\ pc = "llm"
    /\ Len(log) >= 3
    /\ log[Len(log) - 2].ev = "tool_return"
    /\ log[Len(log) - 2].text # <<>>
    /\ prompt.trajectory[Len(prompt.trajectory)].observation =
          <<"Tool error: ", "Object is not JSON serializable">>

\* C8: when no finish action was executed (the run ended at
\* TERMINATED_INVALID, TERMINATED_DISALLOWED or TERMINATED_MAX_STEPS), the
\* returned final_answer is the thought of the last step, or the apology
\* when the trajectory is empty.
C8_FallbackToLastThought ==
    (pc = "returned" /\ exit \in {"TERMINATED_INVALID", "TERMINATED_DISALLOWED",
                                  "TERMINATED_MAX_STEPS"}) =>
        result.final_answer =
            IF trajectory = <<>> THEN <<"I'm sorry, I couldn't generate an answer.">>
            ELSE trajectory[Len(trajectory)][1]

\* two steps with different thoughts and no finish
C8_Witness ==
    /\ pc = "returned"
    /\ exit = "TERMINATED_DISALLOWED"
    /\ Len(trajectory) = 2
    /\ trajectory[1][1] # trajectory[2][1]
    /\ result.final_answer = trajectory[2][1]

\* C9: for max_steps = n >= 1, when every iteration asks for an allowed,
\* registered tool (whether the handler succeeds or raises), the run
\* performs exactly n iterations, ends at TERMINATED_MAX_STEPS with exactly
\* n steps, and final_answer is the thought of the n-th step.
C9_ToolsOnlyRunsToMaxSteps ==
    ( /\ pc = "returned"
      /\ max_steps >= 1
      /\ \A k \in 1..Len(trajectory) :
            /\ ParsedOf(k).ok
            /\ ParsedOf(k).name # "finish"
            /\ In(ParsedOf(k).name, allow_tools)
            /\ ParsedOf(k).name \in DOMAIN tools ) =>
        /\ exit = "TERMINATED_MAX_STEPS"
        /\ Count("llm_call") = max_steps
        /\ Count("tool_call") = max_steps
        /\ Len(trajectory) = max_steps
        /\ result.final_answer = trajectory[max_steps][1]

\* two iterations, one handler raised and one returned
C9_Witness ==
    /\ pc = "returned"
    /\ exit = "TERMINATED_MAX_STEPS"
    /\ max_steps = 2
    /\ Count("tool_call") = 2
    /\ Has("tool_raise")
    /\ Has("tool_return")
    /\ trajectory[1][1] # trajectory[2][1]

\* the raw output trimmed, with a leading thought label removed
TrimmedWithoutLabel(text) ==
    LET t == strip(text)
    IN  IF t # <<>> /\ Head(t) \in {"Thought:", "thought:", "THOUGHT:"} THEN strip(Tail(t)) ELSE t

HasNoMarker(text) == \A i \in 1..Len(text) : text[i] # "Action:"

\* the run ended in the iteration of log entry j, whose step has this thought
\* and the synthesized finish as its action
EndsWithNoActionFinish(j, thought) ==
    LET it == log[j].it
    IN  /\ pc = "returned"
        /\ j + 1 = Len(log)
        /\ Count("llm_call") = it + 1
        /\ Len(trajectory) = it + 1
        /\ it = 0 => (Count("llm_call") = 1 /\ Len(trajectory) = 1)
        /\ trajectory[it + 1][2] =
              <<"Action:", " ", "finish", "[", "answer", "=", "\"", "(no action)", "\"", "]">>
        /\ trajectory[it + 1][1] = thought

\* C10 as stated: when the generator's output has no action marker, the run
\* ends in that iteration (after exactly one iteration when it is the first)
\* with one step whose action is the synthesized finish with answer
\* "(no action)" and whose thought is the entire raw output, trimmed and
\* without its thought label.
C10_NoMarkerThoughtIsRawOutput ==
    \A j \in DOMAIN log :
        (log[j].ev = "llm_return" /\ log[j].name = "str" /\ HasNoMarker(log[j].text)) =>
            EndsWithNoActionFinish(j, TrimmedWithoutLabel(log[j].text))

\* C10 amended: ... and whose thought is the entire raw output, trimmed and
\* without its thought label, or the placeholder "(no thought)" when nothing
\* remains of it or the output is not text.
C10_NoMarkerFinishes ==
    \A j \in DOMAIN log :
        (log[j].ev = "llm_return" /\ HasNoMarker(log[j].text)) =>
            EndsWithNoActionFinish(j,
                IF log[j].name = "str" /\ TrimmedWithoutLabel(log[j].text) # <<>>
                THEN TrimmedWithoutLabel(log[j].text)
                ELSE <<"(no thought)">>)

\* a labelled thought without an action, with iterations to spare
C10_Witness ==
    /\ pc = "returned"
    /\ max_steps = 2
    /\ Len(log) = 3
    /\ log[2].ev = "llm_return"
    /\ log[2].text = <<"Thought:", " ", "think", "\n">>
    /\ trajectory = << << <<"think">>,
                          <<"Action:", " ", "finish", "[", "answer", "=", "\"", "(no action)", "\"", "]">>,
                          <<"done">> >> >>


\* the text before the last action marker, or all of it without a marker
ThoughtSegment(text) ==
    LET P == {i \in 1..Len(text) : text[i] = "Action:"}
    IN  IF P = {} THEN text
        ELSE SubSeq(text, 1, (CHOOSE i \in P : \A j \in P : j <= i) - 1)

IsBlank(text) == \A i \in 1..Len(text) : text[i] \in {" ", "\n"}

\* the thought recorded (or about to be recorded) for iteration it
ThoughtOf(it) == IF Len(trajectory) >= it + 1 THEN trajectory[it + 1][1] ELSE pending.thought

\* C11: no step of the trajectory has an empty or blank thought; for every
\* generator output (empty text, only a thought label, text that starts with
\* the action marker, a non-string) the recorded thought is the placeholder
\* "(no thought)" when nothing remains after stripping.
C11_NoEmptyThought ==
    /\ \A k \in 1..Len(trajectory) : ~IsBlank(trajectory[k][1])
    /\ pc = "tool" => ~IsBlank(pending.thought)
    /\ pc = "returned" => \A k \in 1..Len(result.steps) : ~IsBlank(result.steps[k].thought)
    /\ \A j \in DOMAIN log :
          ( /\ log[j].ev = "llm_return"
            /\ \/ log[j].name = "non-str"
               \/ TrimmedWithoutLabel(ThoughtSegment(log[j].text)) = <<>> ) =>
                    ThoughtOf(log[j].it) = <<"(no thought)">>

\* an output that starts with the action marker, recorded after its tool ran
C11_Witness ==
    /\ pc = "returned"
    /\ Len(log) >= 2
    /\ log[2].ev = "llm_return"
    /\ log[2].text # <<>>
    /\ log[2].text[1] = "Action:"
    /\ Has("tool_return")
    /\ trajectory[1][1] = <<"(no thought)">>

\* C12: over a sequence of runs on one agent, the trajectory is empty when a
\* run starts, within a run a step once appended is never modified,
\* reordered or removed, and the steps a run returns are exactly the steps
\* appended during that run.
C12_TrajectoryAppendOnly ==
    [][ /\ runs' # runs => trajectory' = <<>>
        /\ runs' = runs =>
              /\ Len(trajectory') >= Len(trajectory)
              /\ SubSeq(trajectory', 1, Len(trajectory)) = trajectory
              /\ Len(trajectory') - Len(trajectory) =
                    Cardinality({j \in DOMAIN log' : log'[j].ev = "append"})
                    - Cardinality({j \in DOMAIN log : log[j].ev = "append"})
        /\ pc' = "returned" =>
              /\ Len(result'.steps) = Cardinality({j \in DOMAIN log' : log'[j].ev = "append"})
              /\ result'.steps = [i \in 1..Len(trajectory') |->
                                    [thought |-> trajectory'[i][1],
                                     action |-> trajectory'[i][2],
                                     observation |-> trajectory'[i][3]]]
      ]_vars

\* a second run that returned one step after a first run that had steps
C12_Witness ==
    /\ runs = 2
    /\ pc = "returned"
    /\ max_steps = 2
    /\ Len(result.steps) = 1

\* C13: the handler of an allowed tool receives exactly the parsed arguments
\* whose names are parameters of the handler; arguments with another name
\* are dropped and never cause a tool error or end the run.
C13_OnlyAcceptedArguments ==
    /\ pc = "tool" =>
          LET parsed == parse_action(pending.action_line).args
              accepted == DOMAIN parsed \cap tools[pending.name].params
          IN  /\ DOMAIN pending.args = accepted
              /\ \A key \in accepted : pending.args[key] = parsed[key]
    /\ \A j \in DOMAIN log : log[j].ev = "tool_raise" =>
          log[j].text # <<"got an unexpected keyword argument">>
    /\ \A j \in DOMAIN log :
          ( /\ log[j].ev = "tool_raise"
            /\ log[j].text = <<"missing 1 required positional argument">> ) =>
              LET given == IF Len(trajectory) >= log[j].it + 1
                           THEN DOMAIN parse_action(trajectory[log[j].it + 1][2]).args
                           ELSE DOMAIN parse_action(pending.action_line).args
              IN  ~(tools[log[j].name].required \subseteq given)

\* search was called with an extra argument zz, returned its payload, and the
\* run went on to a second iteration
C13_Witness ==
    /\ Len(trajectory) = 2
    /\ "zz" \in DOMAIN ParsedOf(1).args
    /\ "query" \in DOMAIN ParsedOf(1).args
    /\ trajectory[1][3] = <<"json", "{payload}">>

\* where the last action marker of text is, and where its line ends
LastMarker(text) == CHOOSE i \in 1..Len(text) :
                        text[i] = "Action:" /\ \A j \in (i + 1)..Len(text) : text[j] # "Action:"
LineEnd(text, from) ==
    LET P == {i \in from..Len(text) : text[i] = "\n"}
    IN  IF P = {} THEN Len(text) ELSE (CHOOSE i \in P : \A j \in P : i <= j) - 1

RECURSIVE WithoutTrailingBlanks(_)
WithoutTrailingBlanks(t) ==
    IF t # <<>> /\ t[Len(t)] \in {" ", "\n"} THEN WithoutTrailingBlanks(SubSeq(t, 1, Len(t) - 1))
    ELSE t

\* the action line recorded (or about to be recorded) for iteration it
ActionOf(it) == IF Len(trajectory) >= it + 1 THEN trajectory[it + 1][2] ELSE pending.action_line

\* C14: for a generator output with one or more action markers, the action
\* line handed to the parser starts at the last marker and ends at the end of
\* that line, and the thought segment is everything before the last marker
\* (earlier markers are part of the thought and are never executed).
C14_LastMarkerIsTheAction ==
    \A j \in DOMAIN log :
        (log[j].ev = "llm_return" /\ log[j].name = "str" /\ ~HasNoMarker(log[j].text)) =>
            LET text == log[j].text
                m == LastMarker(text)
                before == TrimmedWithoutLabel(SubSeq(text, 1, m - 1))
            IN  /\ WithoutTrailingBlanks(ActionOf(log[j].it)) =
                      WithoutTrailingBlanks(SubSeq(text, m, LineEnd(text, m)))
                /\ ThoughtOf(log[j].it) = IF before # <<>> THEN before ELSE <<"(no thought)">>
                /\ CountIn("tool_call", log[j].it) <= 1
                /\ \A i \in DOMAIN log :
                      (log[i].ev = "tool_call" /\ log[i].it = log[j].it) =>
                          log[i].name = parse_action(SubSeq(text, m, LineEnd(text, m))).name

\* an output with two markers: the first one stays in the thought
C14_Witness ==
    /\ pc = "returned"
    /\ Len(log) = 3
    /\ log[2].ev = "llm_return"
    /\ Cardinality({i \in 1..Len(log[2].text) : log[2].text[i] = "Action:"}) = 2
    /\ trajectory[1][2] = <<"Action:", " ", "finish", "[", "]">>
    /\ \E i \in 1..Len(trajectory[1][1]) : trajectory[1][1][i] = "Action:"

\* C15 as stated: when a run ends at TERMINATED_INVALID, the returned
\* final_answer is the invalid-action report of the failing step.
C15_InvalidReportIsFinalAnswer ==
    (pc = "returned" /\ exit = "TERMINATED_INVALID") =>
        result.final_answer =
            <<"Invalid action format: ">> \o trajectory[Len(trajectory)][2]

\* C15 amended: when a run ends at TERMINATED_INVALID, the invalid-action
\* report is the observation of the last returned step, and the returned
\* final_answer is the thought of that step.
C15_InvalidReportIsObservation ==
    (pc = "returned" /\ exit = "TERMINATED_INVALID") =>
        LET n == Len(result.steps)
        IN  /\ n >= 1
            /\ result.steps[n].observation = <<"Invalid action format: ">> \o result.steps[n].action
            /\ result.final_answer = result.steps[n].thought
            /\ result.final_answer # result.steps[n].observation

\* a run that ended on an unparsable action line
C15_Witness ==
    /\ pc = "returned"
    /\ exit = "TERMINATED_INVALID"
    /\ result.steps[Len(result.steps)].action = <<"Action:", " ", "oops">>
    /\ result.final_answer = <<"think">>

\* ------------------------------------------------------------------------
\* Properties of the retrieval engine
\* ------------------------------------------------------------------------
Min(x, y) == IF x < y THEN x ELSE y
Max(x, y) == IF x > y THEN x ELSE y

\* the score of document d of the collection for a query
ScoreOf(query, d) == cosine(tfidf_vector(tokenize(query), IDF), DOC_VECS[d])

\* the ids of the documents in a result list
Ids(results) == {results[r].id : r \in DOMAIN results}

\* the place of document d of the collection in a result list that holds it
Rank(results, d) == CHOOSE r \in DOMAIN results : results[r].id = CORPUS[d].id

\* C16: for every query and every k, the list returned by search_corpus is
\* ordered by non-increasing score and is a prefix of the full ranking: its
\* entries are distinct documents of the collection with their scores, and no
\* document left out has a score greater than a document in the result.
C16_ResultsAreRankingPrefix ==
    \A n \in DOMAIN searches :
        LET s == searches[n]
            res == s.results
        IN  /\ \A i, j \in DOMAIN res : i < j => res[i].score >= res[j].score
            /\ \A i, j \in DOMAIN res : i # j => res[i].id # res[j].id
            /\ \A i \in DOMAIN res : \E d \in 1..N_DOC :
                   /\ CORPUS[d].id = res[i].id
                   /\ res[i].score = ScoreOf(s.query, d)
            /\ \A d \in 1..N_DOC : CORPUS[d].id \notin Ids(res) =>
                   \A i \in DOMAIN res : ScoreOf(s.query, d) <= res[i].score

\* a search that returned two of three documents with different positive
\* scores and left out a document with a smaller positive score
C16_Witness ==
    \E n \in DOMAIN searches :
        LET s == searches[n]
        IN  /\ N_DOC = 3
            /\ s.k = 2
            /\ Len(s.results) = 2
            /\ s.results[1].score > s.results[2].score
            /\ \E d \in 1..N_DOC :
                   /\ CORPUS[d].id \notin Ids(s.results)
                   /\ 0 < ScoreOf(s.query, d)
                   /\ ScoreOf(s.query, d) < s.results[2].score

\* C17: for every query and every integer k, including k < 0 and k greater
\* than the collection size N, search_corpus returns exactly
\* min(max(k, 0), N) results; k = 0 returns the empty list.
C17_KIsClamped ==
    \A n \in DOMAIN searches :
        Len(searches[n].results) = Min(Max(searches[n].k, 0), N_DOC)

\* C18: a query that tokenizes to nothing yields an empty result list for
\* every k, and raises no error.
C18_EmptyQueryYieldsNothing ==
    \A n \in DOMAIN searches :
        tokenize(searches[n].query) = <<>> =>
            /\ ~searches[n].raised
            /\ searches[n].results = <<>>

\* a search with k >= 0 whose query has tokens, none of them in the vocabulary
UnknownOnly(s) ==
    /\ tokenize(s.query) # <<>>
    /\ SetOf(tokenize(s.query)) \cap VOCAB = {}
    /\ s.k >= 0

\* C19: for a query with at least one token, all of whose tokens are absent
\* from the vocabulary, search_corpus raises no error and returns min(k, N)
\* results (k >= 0) that all have score 0.0, in the same order on every call.
C19_UnknownTermsScoreZero ==
    \A n \in DOMAIN searches :
        LET s == searches[n]
        IN  UnknownOnly(s) =>
                /\ ~s.raised
                /\ Len(s.results) = Min(s.k, N_DOC)
                /\ \A i \in DOMAIN s.results : s.results[i].score = 0
                /\ \A m \in DOMAIN searches : UnknownOnly(searches[m]) =>
                       \A i \in DOMAIN s.results \cap DOMAIN searches[m].results :
                           s.results[i].id = searches[m].results[i].id

\* two searches over three documents with different queries of unknown terms
\* only, each returning at least two documents
C19_Witness ==
    /\ Len(searches) = 2
    /\ N_DOC = 3
    /\ UnknownOnly(searches[1])
    /\ UnknownOnly(searches[2])
    /\ tokenize(searches[1].query) # tokenize(searches[2].query)
    /\ Len(searches[1].results) >= 2
    /\ Len(searches[2].results) = 3

\* documents x and y of the collection are both in the result with equal scores
Tied(results, x, y) ==
    /\ CORPUS[x].id \in Ids(results)
    /\ CORPUS[y].id \in Ids(results)
    /\ results[Rank(results, x)].score = results[Rank(results, y)].score

\* C20: for any two documents whose scores for a query are exactly equal, their
\* relative order in the result depends only on their positions in the
\* collection (the later document comes first), so it is the same on every
\* repetition of the query and for every query that ties them.
C20_TiesOrderedByPosition ==
    \A x, y \in 1..N_DOC : x < y =>
        /\ \A n \in DOMAIN searches :
               Tied(searches[n].results, x, y) =>
                   Rank(searches[n].results, y) < Rank(searches[n].results, x)
        /\ \A n, m \in DOMAIN searches :
               (Tied(searches[n].results, x, y) /\ Tied(searches[m].results, x, y)) =>
                   (Rank(searches[n].results, x) < Rank(searches[n].results, y)
                       <=> Rank(searches[m].results, x) < Rank(searches[m].results, y))

\* two searches with different queries that both tie the first two documents,
\* one at a positive score and one at zero
C20_Witness ==
    /\ Len(searches) = 2
    /\ N_DOC = 3
    /\ searches[1].query # searches[2].query
    /\ Tied(searches[1].results, 1, 2)
    /\ Tied(searches[2].results, 1, 2)
    /\ searches[1].results[Rank(searches[1].results, 1)].score > 0
    /\ searches[2].results[Rank(searches[2].results, 1)].score = 0

\* ------------------------------------------------------------------------
\* Properties of cosine
\* ------------------------------------------------------------------------
\* a vector without direction: no item, or every weight 0
Null(v) == \A i \in 1..Len(v) : v[i][2] = 0

\* C21: cosine(a, b) returns 0.0 and never raises a division error whenever
\* either sparse vector is empty or has Euclidean norm zero (every weight 0).
C21_NullVectorScoresZero ==
    \A n \in DOMAIN cosines :
        (Null(cosines[n].a) \/ Null(cosines[n].b)) =>
            /\ ~cosines[n].raised
            /\ cosines[n].value = 0

\* a call with an empty vector and a call with a non-empty vector of zero
\* weights, each against a vector with positive weights
C21_Witness ==
    /\ Len(cosines) = 2
    /\ cosines[1].a = <<>>
    /\ ~Null(cosines[1].b)
    /\ cosines[2].b # <<>>
    /\ Null(cosines[2].b)
    /\ ~Null(cosines[2].a)

\* C22: similarity is symmetric: for every pair of sparse vectors A and B,
\* cosine(A, B) equals cosine(B, A).
C22_CosineIsSymmetric ==
    \A n, m \in DOMAIN cosines :
        (cosines[n].a = cosines[m].b /\ cosines[n].b = cosines[m].a) =>
            cosines[n].value = cosines[m].value

\* ------------------------------------------------------------------------
\* Properties of the index
\* ------------------------------------------------------------------------
\* the tokens of the title and text of document i of the collection
TokensOf(i) == tokenize(CORPUS[i].title \o <<" ">> \o CORPUS[i].text)

\* the documents whose tokens hold term t at least once
DocsWith(t) == {i \in 1..Len(CORPUS) : \E j \in 1..Len(TokensOf(i)) : TokensOf(i)[j] = t}

\* term t occurs more than once in document i
Repeated(t, i) == Cardinality({j \in 1..Len(TokensOf(i)) : TokensOf(i)[j] = t}) > 1

\* C23: after index construction, every vocabulary term has a DF entry equal
\* to the number of documents whose token list contains the term at least
\* once, so 1 <= DF[t] <= N for every vocabulary term t, and DF has no key
\* outside the vocabulary.
C23_DFCountsDocuments ==
    /\ DOMAIN DF = VOCAB
    /\ \A t \in VOCAB :
           /\ DF[t] = Cardinality(DocsWith(t))
           /\ 1 <= DF[t]
           /\ DF[t] <= N_DOC

\* an index over three documents with a term that is in all of them and a
\* term that is repeated in the only document that holds it
C23_Witness ==
    /\ N_DOC = 3
    /\ \E t \in VOCAB : DF[t] = 3
    /\ \E t \in VOCAB : DF[t] = 1 /\ \E i \in 1..N_DOC : Repeated(t, i)

\* C24: for every vocabulary term, IDF = ln((N+1)/(DF+0.5)) + 1 is strictly
\* positive, including for a term that appears in all N documents, and a term
\* in more documents has a strictly smaller IDF.
C24_IDFPositiveDecreasing ==
    /\ DOMAIN IDF = VOCAB
    /\ \A t \in VOCAB : IDF[t] > 0
    /\ \A t, u \in VOCAB : DF[t] < DF[u] => IDF[t] > IDF[u]

\* an index with a term that is in every one of three documents, a term in
\* two of them and a term in one
C24_Witness ==
    /\ N_DOC = 3
    /\ \E t, u, w \in VOCAB : DF[t] = N_DOC /\ DF[u] = 2 /\ DF[w] = 1 /\ IDF[t] > 0

\* C25: for every document of the collection, the key set of its document
\* vector is exactly the set of distinct tokens of its title and text, each
\* key once, and every stored weight is strictly positive.
C25_DocVectorKeysAreDocTokens ==
    \A i \in 1..N_DOC :
        /\ Len(DOC_VECS) = N_DOC
        /\ keys(DOC_VECS[i]) = SetOf(TokensOf(i))
        /\ Len(DOC_VECS[i]) = Cardinality(SetOf(TokensOf(i)))
        /\ \A j \in 1..Len(DOC_VECS[i]) : DOC_VECS[i][j][2] > 0

\* an index in which a document lacks a term of the vocabulary and holds
\* another term more than once
C25_Witness ==
    \E i \in 1..N_DOC :
        /\ keys(DOC_VECS[i]) # VOCAB
        /\ keys(DOC_VECS[i]) # {}
        /\ \E t \in VOCAB : Repeated(t, i)

\* ------------------------------------------------------------------------
\* Frame of the queries
\* ------------------------------------------------------------------------
\* the collection as it was loaded: the documents without any added key
Loaded ==
    CHOOSE corpus \in Corpora :
        /\ Len(corpus) = Len(CORPUS)
        /\ \A i \in 1..Len(corpus) :
               /\ corpus[i].id = CORPUS[i].id
               /\ corpus[i].title = CORPUS[i].title
               /\ corpus[i].text = CORPUS[i].text

\* the index built over a collection
BuiltIDF(corpus) ==
    LET toks == [i \in 1..Len(corpus) |-> tokenize(corpus[i].title \o <<" ">> \o corpus[i].text)]
        vocab == UNION {SetOf(toks[i]) : i \in 1..Len(toks)}
    IN  [t \in vocab |-> idf(Len(corpus), Cardinality({i \in 1..Len(toks) : t \in SetOf(toks[i])}))]
BuiltVecs(corpus, table) ==
    [i \in 1..Len(corpus) |->
        tfidf_vector(tokenize(corpus[i].title \o <<" ">> \o corpus[i].text), table)]

\* the index of each collection right after the module is loaded
Fresh ==
    [corpus \in Corpora |->
        LET table == BuiltIDF(corpus)
        IN  [idf |-> table, vecs |-> BuiltVecs(corpus, table)]]
\* what search_corpus(query, k) returns when it is the only call made on the
\* loaded collection
Alone(query, k) ==
    LET corpus == Loaded
    IN  search_corpus(query, k, corpus, Fresh[corpus].idf, Fresh[corpus].vecs)

\* C26: search_corpus and tool_search leave the document collection and the
\* index (CORPUS, DF, IDF, DOC_VECS) unchanged; every result is a copy of a
\* document with a score added, and every call, whatever calls came before
\* it, returns the result of running its query alone.
C26_QueriesLeaveIndexUnchanged ==
    [][ /\ CORPUS' = CORPUS
        /\ DF' = DF
        /\ IDF' = IDF
        /\ DOC_VECS' = DOC_VECS
        /\ searches' # searches =>
               LET s == searches'[Len(searches')]
               IN  /\ s.results = Alone(s.query, s.k)
                   /\ \A r \in 1..Len(s.results) : \E d \in 1..Len(CORPUS) :
                          s.results[r] = with_score(CORPUS[d], s.results[r].score)
                   /\ s.fn = "tool_search" =>
                          /\ s.payload.query = s.query
                          /\ Len(s.payload.results) = Len(s.results)
                          /\ \A r \in 1..Len(s.results) :
                                 s.payload.results[r].id = s.results[r].id
      ]_vars

\* a tool_search call and a search_corpus call with the same query, one after
\* the other, both returning documents, with the collection as it was loaded
C26_Witness ==
    /\ Len(searches) = 2
    /\ searches[1].fn = "tool_search"
    /\ searches[2].fn = "search_corpus"
    /\ searches[1].query = searches[2].query
    /\ Len(searches[1].results) >= 1
    /\ searches[2].results # <<>>
    /\ searches[2].results[1].score > 0
    /\ CORPUS \in Corpora

\* ------------------------------------------------------------------------
\* Properties of the loop
\* ------------------------------------------------------------------------
TerminalStates == {"TERMINATED_FINISH", "TERMINATED_INVALID",
                   "TERMINATED_DISALLOWED", "TERMINATED_MAX_STEPS"}

\* C27: provided every generator call and every handler call returns or
\* raises, every run eventually reaches one of the four terminal states and
\* returns; a terminal state is reached only by returning, and once it is
\* reached the only step left is the start of another run: no generator
\* call, tool call or step append happens in that run any more.
C27_RunsTerminate ==
    /\ [](pc \in {"llm", "tool"} => <>(pc = "returned" /\ exit \in TerminalStates))
    /\ [](exit \in TerminalStates <=> pc = "returned")
    /\ [][pc = "returned" => runs' = runs + 1]_vars

\* a second run that returned at the step limit after two tool calls
C27_Witness ==
    /\ pc = "returned"
    /\ runs = 2
    /\ exit = "TERMINATED_MAX_STEPS"
    /\ Count("tool_call") = 2
    /\ Count("append") = 2

\* ------------------------------------------------------------------------
\* Order of the calls within an iteration
\* ------------------------------------------------------------------------

\* an event without the way the call ended: a return and a raise both answer
Phase(ev) ==
    IF ev \in {"llm_return", "llm_raise"} THEN "llm_answer"
    ELSE IF ev \in {"tool_return", "tool_raise"} THEN "tool_answer"
    ELSE ev

\* what happened in iteration it, in the order it happened
PhasesOf(it) ==
    LET mine == SelectSeq(log, LAMBDA e : e.it = it)
    IN  [j \in 1..Len(mine) |-> Phase(mine[j].ev)]

\* an iteration that ran a tool
WITH_TOOL == <<"llm_call", "llm_answer", "tool_call", "tool_answer", "append">>

\* event f may come right after event e: the next phase of the same
\* iteration, or the generator call of the next iteration after an append
Follows(e, f) ==
    LET p == Phase(e.ev)
        q == Phase(f.ev)
    IN  \/ p = "llm_call" /\ q = "llm_answer" /\ f.it = e.it
        \/ p = "llm_answer" /\ q \in {"tool_call", "append"} /\ f.it = e.it
        \/ p = "tool_call" /\ q = "tool_answer" /\ f.it = e.it
        \/ p = "tool_answer" /\ q = "append" /\ f.it = e.it
        \/ p = "append" /\ q = "llm_call" /\ f.it = e.it + 1

\* the phase run is in: that of the last event, "append" before the first
Now == IF log = <<>> THEN "append" ELSE Phase(log[Len(log)].ev)

\* calls that have started and have not returned or raised
InFlight ==
    Count("llm_call") + Count("tool_call")
    - (Count("llm_return") + Count("llm_raise") + Count("tool_return") + Count("tool_raise"))

\* C28: each iteration calls the generator exactly once, then at most one
\* tool handler, then appends exactly one step, in that order; the generator
\* has answered before a tool call starts; at most one external call is in
\* flight, and it is the one run waits for; an iteration that is over has
\* appended its step; the trajectory has one step per completed iteration.
C28_OneCallAtATimeOneStepPerIteration ==
    /\ log # <<>> => log[1].ev = "llm_call" /\ log[1].it = 0
    /\ \A j \in 1..Len(log) - 1 : Follows(log[j], log[j + 1])
    /\ pc = "llm" <=> Now = "llm_call"
    /\ pc = "tool" <=> Now = "tool_call"
    /\ pc \in {"idle", "returned"} <=> Now = "append"
    /\ InFlight = IF pc \in {"llm", "tool"} THEN 1 ELSE 0
    /\ Len(trajectory) = Count("append")

\* a run is in its second iteration after a first that ran a tool, waiting
\* for the second tool call
C28_Witness ==
    /\ pc = "tool"
    /\ step_idx = 1
    /\ PhasesOf(0) = WITH_TOOL
    /\ PhasesOf(1) = SubSeq(WITH_TOOL, 1, 3)
    /\ Len(trajectory) = 1

\* ------------------------------------------------------------------------
\* Order of the decisions within an iteration
\* ------------------------------------------------------------------------

\* the handler of name was called in this run
Invoked(name) == \E j \in DOMAIN log : log[j].ev = "tool_call" /\ log[j].name = name

\* the name of step k is missing from the allow-list or from the registry
Refused(k) == ~In(ParsedOf(k).name, allow_tools) \/ ParsedOf(k).name \notin DOMAIN tools

\* C29: an iteration decides in the order parse failure, terminal action,
\* allow-list and registry.  An action line that does not parse ends the run
\* as invalid whatever name it carries; a parsed finish ends the run at
\* TERMINATED_FINISH whether or not the allow-list or the registry has
\* "finish" (the default allow_tools has not, TOOLS has); only then is a name
\* refused; and no run calls the handler registered under "finish".
C29_DecisionOrder ==
    /\ ~In("finish", ALLOW_DEFAULT)
    /\ \A registry \in Registries : "finish" \in DOMAIN registry
    /\ ~Invoked("finish")
    /\ pc = "tool" => pending.name # "finish"
    /\ \A k \in 1..Len(trajectory) :
        LET over == pc = "returned" /\ k = Len(trajectory)
        IN  /\ ~ParsedOf(k).ok => over /\ exit = "TERMINATED_INVALID"
            /\ ParsedOf(k).ok /\ ParsedOf(k).name = "finish" =>
                   over /\ exit = "TERMINATED_FINISH"
            /\ ParsedOf(k).ok /\ ParsedOf(k).name # "finish" /\ Refused(k) =>
                   over /\ exit = "TERMINATED_DISALLOWED"
            /\ ParsedOf(k).ok /\ ParsedOf(k).name # "finish" /\ ~Refused(k) =>
                   ~over \/ exit = "TERMINATED_MAX_STEPS"

\* a run under the default allow-list called a tool and then ended on a
\* finish that the allow-list does not name
C29_Witness ==
    /\ pc = "returned"
    /\ allow_tools = ALLOW_DEFAULT
    /\ Len(trajectory) = 2
    /\ ParsedOf(2).ok /\ ParsedOf(2).name = "finish" /\ Refused(2)
    /\ Invoked("search")
    /\ exit = "TERMINATED_FINISH"

\* ------------------------------------------------------------------------
\* The returned answer
\* ------------------------------------------------------------------------

\* the answer the last step's finish carries, as run stores it
StoredAnswer ==
    LET args == ParsedOf(Len(trajectory)).args
    IN  IF "answer" \in DOMAIN args THEN strip(str(args["answer"])) ELSE <<>>

====
